---- MODULE Spec2Model ----
(***************************************************************************)
(* EduSaaS backend: the request handlers of main.py, the data models of    *)
(* schemas.py and the document-store gateway (module `database`) they      *)
(* delegate to.  The gateway is described in the specification, sections   *)
(* 4.2, 5 and 7; every other definition follows the source line by line.   *)
(***************************************************************************)
EXTENDS Integers, Sequences, FiniteSets, TLC

\* ------------------------------------------------------------------------
\* Bounds of the model
\* ------------------------------------------------------------------------

\* Documents in the system (stored, or validated and about to be written).
MaxDocs == 2

\* Request handlers that can be in flight at the same time.
Workers == {1, 2}

\* Python's None, distinct from every string a request can carry.
None == "<None>"

\* Identifier-like strings a request can carry; "" is a legal str.
Str == {"", "a"}

\* A query parameter of a list request: absent (None) or any string.
QueryVals == {None} \cup Str

\* The same, for the parameters the model varies less.
QueryFew == {None, "a"}

\* ------------------------------------------------------------------------
\* schemas.py: the data models
\* ------------------------------------------------------------------------

NoFields == [f \in {} |-> None]

\* A model is its name, its required fields, the defaults of its optional
\* fields and the literal sets of its enumerated fields.
User ==
    [name |-> "User",
     required |-> {"name", "email"},
     defaults |-> [role |-> "student", avatar_url |-> None, is_active |-> TRUE],
     enums |-> [role |-> {"teacher", "student", "admin"}]]

\* Course, were its level declared a plain str.
Course_any_level ==
    [name |-> "Course",
     required |-> {"title", "teacher_id"},
     defaults |-> [description |-> "", category |-> None, tags |-> <<>>,
                   thumbnail_url |-> None, level |-> "beginner",
                   is_published |-> FALSE],
     enums |-> NoFields]

Course ==
    [name |-> "Course",
     required |-> {"title", "teacher_id"},
     defaults |-> [description |-> "", category |-> None, tags |-> <<>>,
                   thumbnail_url |-> None, level |-> "beginner",
                   is_published |-> FALSE],
     enums |-> [level |-> {"beginner", "intermediate", "advanced"}]]

Lesson ==
    [name |-> "Lesson",
     required |-> {"course_id", "title"},
     defaults |-> [video_url |-> None, content |-> None, order |-> 0,
                   duration_minutes |-> None],
     enums |-> NoFields]

Assignment ==
    [name |-> "Assignment",
     required |-> {"course_id", "title", "instructions"},
     defaults |-> [due_date |-> None, max_points |-> 100],
     enums |-> NoFields]

Quiz ==
    [name |-> "Quiz",
     required |-> {"course_id", "title"},
     defaults |-> [questions |-> <<>>, time_limit_minutes |-> None],
     enums |-> NoFields]

Enrollment ==
    [name |-> "Enrollment",
     required |-> {"course_id", "student_id"},
     defaults |-> [status |-> "active", progress_percent |-> 0],
     enums |-> [status |-> {"active", "completed", "dropped"}]]

Submission ==
    [name |-> "Submission",
     required |-> {"assignment_id", "student_id"},
     defaults |-> [content_url |-> None, content_text |-> None,
                   grade |-> None, feedback |-> None],
     enums |-> NoFields]

QuizAttempt ==
    [name |-> "QuizAttempt",
     required |-> {"quiz_id", "student_id", "answers"},
     defaults |-> [score |-> None],
     enums |-> NoFields]

Subscription ==
    [name |-> "Subscription",
     required |-> {"user_id"},
     defaults |-> [plan |-> "free", status |-> "active", renews_at |-> None],
     enums |-> [plan |-> {"free", "pro", "team", "enterprise"},
                status |-> {"active", "past_due", "canceled"}]]

Activity ==
    [name |-> "Activity",
     required |-> {"user_id", "action", "resource_type", "resource_id"},
     defaults |-> [metadata |-> NoFields],
     enums |-> NoFields]

DeclaredFields(model) == model.required \cup DOMAIN model.defaults

\* SCHEMAS: collection name -> schema of its model (here: its field names).
SCHEMAS ==
    [user |-> DeclaredFields(User),
     course |-> DeclaredFields(Course),
     lesson |-> DeclaredFields(Lesson),
     assignment |-> DeclaredFields(Assignment),
     quiz |-> DeclaredFields(Quiz),
     enrollment |-> DeclaredFields(Enrollment),
     submission |-> DeclaredFields(Submission),
     quizattempt |-> DeclaredFields(QuizAttempt),
     subscription |-> DeclaredFields(Subscription),
     activity |-> DeclaredFields(Activity)]

Namespaces == DOMAIN SCHEMAS

ValidationError == [type |-> "ValidationError"]

\* Constructing a model from keyword arguments: required fields must be
\* present, omitted optional fields take their defaults, an enumerated
\* field must hold one of its literals; otherwise the construction raises.
Construct(model, kw) ==
    IF ~(model.required \subseteq DOMAIN kw) THEN ValidationError
    ELSE LET full == [f \in DeclaredFields(model) |->
                        IF f \in DOMAIN kw THEN kw[f] ELSE model.defaults[f]]
         IN  IF \E f \in DOMAIN model.enums : full[f] \notin model.enums[f]
             THEN ValidationError
             ELSE [type |-> model.name, fields |-> full]

\* BaseModel.model_dump(): the instance as a plain mapping of its fields.
model_dump(m) == m.fields

\* A dict literal handed over as a document.
Dict(fields) == [type |-> "dict", fields |-> fields]

\* ------------------------------------------------------------------------
\* main.py: the request models
\* ------------------------------------------------------------------------

CreateCourseRequest ==
    [name |-> "CreateCourseRequest",
     required |-> {"title", "teacher_id"},
     defaults |-> [description |-> "", category |-> None, tags |-> <<>>,
                   thumbnail_url |-> None, level |-> "beginner"],
     enums |-> NoFields]

CreateLessonRequest ==
    [name |-> "CreateLessonRequest",
     required |-> {"course_id", "title"},
     defaults |-> [video_url |-> None, content |-> None, order |-> 0],
     enums |-> NoFields]

CreateAssignmentRequest ==
    [name |-> "CreateAssignmentRequest",
     required |-> {"course_id", "title", "instructions"},
     defaults |-> NoFields,
     enums |-> NoFields]

CreateQuizRequest ==
    [name |-> "CreateQuizRequest",
     required |-> {"course_id", "title"},
     defaults |-> NoFields,
     enums |-> NoFields]

EnrollRequest ==
    [name |-> "EnrollRequest",
     required |-> {"course_id", "student_id"},
     defaults |-> NoFields,
     enums |-> NoFields]

SubmitAssignmentRequest ==
    [name |-> "SubmitAssignmentRequest",
     required |-> {"assignment_id", "student_id"},
     defaults |-> [content_url |-> None, content_text |-> None],
     enums |-> NoFields]

TrackActivityRequest ==
    [name |-> "TrackActivityRequest",
     required |-> {"user_id", "action", "resource_type", "resource_id"},
     defaults |-> NoFields,
     enums |-> NoFields]

CreateSubscriptionRequest ==
    [name |-> "CreateSubscriptionRequest",
     required |-> {"user_id"},
     defaults |-> [plan |-> "free"],
     enums |-> NoFields]

\* ------------------------------------------------------------------------
\* Request bodies the model sends (JSON objects: field name -> value)
\* ------------------------------------------------------------------------

BodiesCourse ==
    { [title |-> "T", teacher_id |-> "t1"],
      [title |-> "T", teacher_id |-> "t1", level |-> "expert"],
      [teacher_id |-> "t1"] }

BodiesLesson ==
    { [course_id |-> c, title |-> "T"] : c \in Str } \cup { [title |-> "T"] }

BodiesAssignment ==
    { [course_id |-> "a", title |-> "T", instructions |-> "I"],
      [course_id |-> "a", title |-> "T"] }

BodiesQuiz ==
    { [course_id |-> "a", title |-> "T"], [title |-> "T"] }

BodiesEnroll ==
    { [course_id |-> c, student_id |-> s] : c \in Str, s \in Str }
        \cup { [course_id |-> "a"] }

BodiesSubmit ==
    { [assignment_id |-> "a", student_id |-> s] : s \in Str }
        \cup { [student_id |-> "a"] }

BodiesActivity ==
    { [user_id |-> "a", action |-> "view", resource_type |-> "course",
       resource_id |-> "a"],
      [user_id |-> "a", action |-> "view"] }

BodiesSubscription ==
    { [user_id |-> "a"], [user_id |-> "a", plan |-> "gold"], [plan |-> "pro"] }

\* ------------------------------------------------------------------------
\* State
\* ------------------------------------------------------------------------

VARIABLES
    hasUrl,   \* whether a store connection string was supplied to the process
    handle,   \* the gateway's store handle: Uninitialized, Connecting, Connected, Failed
    phase,    \* "startup" until main.py has imported `db`, then "serving"
    db,       \* main.py's binding of the imported name `db`
    store,    \* namespace -> sequence of stored documents
    nextId,   \* the store's identifier generator
    now,      \* the server clock: it has advanced whenever it is read again
    pc,       \* per worker: "idle", or "call" (document built, gateway call next)
    local,    \* per worker: the pending gateway call
    last,     \* the response a handler has just produced, until it is delivered
    log       \* history: one entry per successful create response (handler,
              \* returned id, the document handed over, and whether an identical
              \* call of another worker was in flight)

vars == <<hasUrl, handle, phase, db, store, nextId, now, pc, local, last, log>>

NoCall == [handler |-> "", kind |-> "", data |-> Dict(NoFields)]

NoResponse ==
    [handler |-> "", status |-> "", id |-> 0, items |-> <<>>,
     params |-> NoFields, filter |-> NoFields, body |-> NoFields]

Response(h, st) == [NoResponse EXCEPT !.handler = h, !.status = st]

RECURSIVE SumLen(_, _)
SumLen(f, S) ==
    IF S = {} THEN 0
    ELSE LET k == CHOOSE x \in S : TRUE
         IN  Len(f[k]) + SumLen(f, S \ {k})

Stored == SumLen(store, Namespaces)

Pending == Cardinality({w \in Workers : pc[w] = "call"})

Init ==
    /\ hasUrl \in BOOLEAN
    /\ handle = "Uninitialized"
    /\ phase = "startup"
    /\ db = "Unbound"
    /\ store = [k \in Namespaces |-> <<>>]
    /\ nextId = 1
    /\ now = 0
    /\ pc = [w \in Workers |-> "idle"]
    /\ local = [w \in Workers |-> NoCall]
    /\ last = NoResponse
    /\ log = <<>>

\* ------------------------------------------------------------------------
\* The document-store gateway (module `database`; specification 4.2, 5, 7)
\* ------------------------------------------------------------------------

\* Connection lifecycle: Uninitialized -> Connecting -> {Connected, Failed},
\* attempted once at process start when a connection string is supplied.
Connect ==
    /\ phase = "startup" /\ handle = "Uninitialized" /\ hasUrl
    /\ handle' = "Connecting"
    /\ UNCHANGED <<hasUrl, phase, db, store, nextId, now, pc, local, last, log>>

ConnectOk ==
    /\ phase = "startup" /\ handle = "Connecting"
    /\ handle' = "Connected"
    /\ UNCHANGED <<hasUrl, phase, db, store, nextId, now, pc, local, last, log>>

ConnectFail ==
    /\ phase = "startup" /\ handle = "Connecting"
    /\ handle' = "Failed"
    /\ UNCHANGED <<hasUrl, phase, db, store, nextId, now, pc, local, last, log>>

\* The fields of a document as they are written.
Serialize(data) == IF data.type = "dict" THEN data.fields ELSE model_dump(data)

\* The identifier and the creation timestamp are added to the fields.
Stamp(fields, id, t) == ("_id" :> id) @@ ("created_at" :> t) @@ fields

\* The declared fields of a stored document.
Declared(doc) == [f \in (DOMAIN doc) \ {"_id", "created_at"} |-> doc[f]]

\* create(kind, document): one atomic write, or StoreUnavailableError when the
\* handle is not Connected; a store operation that throws at run time moves
\* the handle to Failed and writes nothing.  t is the clock reading, throws
\* the store's behaviour.  The result carries the gateway's next state.
create_document(kind, data, t, throws) ==
    IF handle # "Connected"
    THEN [status |-> "StoreUnavailableError", id |-> 0, store |-> store,
          nextId |-> nextId, now |-> now, handle |-> handle]
    ELSE IF throws
    THEN [status |-> "StoreError", id |-> 0, store |-> store,
          nextId |-> nextId, now |-> now, handle |-> "Failed"]
    ELSE [status |-> "ok", id |-> nextId,
          store |-> [store EXCEPT
                       ![kind] = Append(@, Stamp(Serialize(data), nextId, t))],
          nextId |-> nextId + 1, now |-> t, handle |-> handle]

\* A document matches a filter when it has every filter field with that value.
Matches(doc, filter) ==
    \A f \in DOMAIN filter : f \in DOMAIN doc /\ doc[f] = filter[f]

\* list(kind, filter): every document of the namespace matching the filter.
get_documents(kind, filter, throws) ==
    IF handle # "Connected"
    THEN [status |-> "StoreUnavailableError", items |-> <<>>, handle |-> handle]
    ELSE IF throws
    THEN [status |-> "StoreError", items |-> <<>>, handle |-> "Failed"]
    ELSE [status |-> "ok",
          items |-> SelectSeq(store[kind], LAMBDA d : Matches(d, filter)),
          handle |-> handle]

\* ------------------------------------------------------------------------
\* main.py
\* ------------------------------------------------------------------------

\* `from database import db, ...`: the name is bound once, to the value the
\* gateway holds when the import runs.
ImportDb ==
    /\ phase = "startup"
    /\ handle \in {"Connected", "Failed"} \/ (handle = "Uninitialized" /\ ~hasUrl)
    /\ db' = IF handle = "Connected" THEN "Database" ELSE None
    /\ phase' = "serving"
    /\ UNCHANGED <<hasUrl, handle, store, nextId, now, pc, local, last, log>>

\* The process serves requests, and the response of the handler that ran
\* last has gone out to its client.
Quiet == phase = "serving" /\ last = NoResponse

\* The response leaves the process.
Deliver ==
    /\ last # NoResponse
    /\ last' = NoResponse
    /\ UNCHANGED <<hasUrl, handle, phase, db, store, nextId, now, pc, local, log>>

read_root ==
    /\ Quiet
    /\ last' = [Response("read_root", "ok") EXCEPT
                  !.body = [message |-> "EduSaaS backend running"]]
    /\ UNCHANGED <<hasUrl, handle, phase, db, store, nextId, now, pc, local, log>>

get_schema ==
    /\ Quiet
    /\ last' = [Response("get_schema", "ok") EXCEPT
                  !.body = [collections |-> SCHEMAS]]
    /\ UNCHANGED <<hasUrl, handle, phase, db, store, nextId, now, pc, local, log>>

NamespaceOrder ==
    <<"user", "course", "lesson", "assignment", "quiz", "enrollment",
      "submission", "quizattempt", "subscription", "activity">>

\* db.list_collection_names(): the namespaces that hold a document.
list_collection_names == SelectSeq(NamespaceOrder, LAMBDA k : store[k] # <<>>)

Slice(s, n) == SubSeq(s, 1, IF Len(s) < n THEN Len(s) ELSE n)

\* The body test_database builds; throws: db.list_collection_names() raises.
test_database_body(throws) ==
    LET response == [backend |-> "Running",
                     database |-> "Not Available",
                     database_url |-> None,
                     database_name |-> None,
                     connection_status |-> "Not Connected",
                     collections |-> <<>>]
    IN  IF db # None
        THEN LET r1 == [response EXCEPT
                          !.database = "Available",
                          !.database_url = IF hasUrl THEN "Set" ELSE "Not Set",
                          !.database_name = "name",
                          !.connection_status = "Connected"]
             IN  IF throws
                 THEN [r1 EXCEPT !.database = "Connected but Error"]
                 ELSE [r1 EXCEPT !.collections = Slice(list_collection_names, 10),
                                 !.database = "Connected & Working"]
        ELSE [response EXCEPT !.database = "Available but not initialized"]

test_database ==
    /\ Quiet
    /\ \E throws \in BOOLEAN :
         /\ throws => db # None
         /\ last' = [Response("test_database", "ok") EXCEPT
                       !.body = test_database_body(throws),
                       !.params = [probe_raised |-> throws]]
    /\ UNCHANGED <<hasUrl, handle, phase, db, store, nextId, now, pc, local, log>>

\* --- create handlers ---------------------------------------------------
\* A create handler runs in two steps, so that handlers of concurrent requests
\* interleave: it parses the body and builds the document, then it calls the
\* gateway and returns.

UNCHANGED_store == UNCHANGED <<hasUrl, handle, phase, db, store, nextId, now, log>>

\* Worker w takes the next request: the first worker that is idle (which idle
\* worker the server picks makes no difference to the request).
Free(w) == pc[w] = "idle" /\ \A v \in Workers : v < w => pc[v] # "idle"

\* The request is refused: the body or the document failed validation.
Reject(w, h, body) ==
    /\ last' = [Response(h, "ValidationError") EXCEPT !.params = body]
    /\ UNCHANGED <<pc, local>>

\* The handler is about to call create_document(kind, data).
Delegate(w, h, kind, data) ==
    /\ Stored + Pending < MaxDocs
    /\ pc' = [pc EXCEPT ![w] = "call"]
    /\ local' = [local EXCEPT ![w] = [handler |-> h, kind |-> kind, data |-> data]]
    /\ UNCHANGED last

create_course(w) ==
    /\ Quiet /\ Free(w)
    /\ \E body \in BodiesCourse :
         LET payload == Construct(CreateCourseRequest, body) IN
         IF payload = ValidationError THEN Reject(w, "create_course", body)
         ELSE LET course == Construct(Course,
                    [title |-> payload.fields.title,
                     description |-> payload.fields.description,
                     teacher_id |-> payload.fields.teacher_id,
                     category |-> payload.fields.category,
                     tags |-> payload.fields.tags,
                     thumbnail_url |-> payload.fields.thumbnail_url,
                     level |-> payload.fields.level,
                     is_published |-> FALSE])
              IN  IF course = ValidationError THEN Reject(w, "create_course", body)
                  ELSE Delegate(w, "create_course", "course", course)
    /\ UNCHANGED_store

create_lesson(w) ==
    /\ Quiet /\ Free(w)
    /\ \E body \in BodiesLesson :
         LET payload == Construct(CreateLessonRequest, body) IN
         IF payload = ValidationError THEN Reject(w, "create_lesson", body)
         ELSE LET lesson == Construct(Lesson, model_dump(payload))
              IN  IF lesson = ValidationError THEN Reject(w, "create_lesson", body)
                  ELSE Delegate(w, "create_lesson", "lesson", lesson)
    /\ UNCHANGED_store

create_assignment(w) ==
    /\ Quiet /\ Free(w)
    /\ \E body \in BodiesAssignment :
         LET payload == Construct(CreateAssignmentRequest, body) IN
         IF payload = ValidationError THEN Reject(w, "create_assignment", body)
         ELSE LET assignment == Construct(Assignment,
                    [course_id |-> payload.fields.course_id,
                     title |-> payload.fields.title,
                     instructions |-> payload.fields.instructions])
              IN  IF assignment = ValidationError
                  THEN Reject(w, "create_assignment", body)
                  ELSE Delegate(w, "create_assignment", "assignment", assignment)
    /\ UNCHANGED_store

\* create_quiz, were it to name the lesson namespace.
create_quiz_into_lesson(w) ==
    /\ Quiet /\ Free(w)
    /\ \E body \in BodiesQuiz :
         LET payload == Construct(CreateQuizRequest, body) IN
         IF payload = ValidationError THEN Reject(w, "create_quiz", body)
         ELSE LET quiz == Construct(Quiz,
                    [course_id |-> payload.fields.course_id,
                     title |-> payload.fields.title,
                     questions |-> <<>>])
              IN  IF quiz = ValidationError THEN Reject(w, "create_quiz", body)
                  ELSE Delegate(w, "create_quiz", "lesson", quiz)
    /\ UNCHANGED_store

create_quiz(w) ==
    /\ Quiet /\ Free(w)
    /\ \E body \in BodiesQuiz :
         LET payload == Construct(CreateQuizRequest, body) IN
         IF payload = ValidationError THEN Reject(w, "create_quiz", body)
         ELSE LET quiz == Construct(Quiz,
                    [course_id |-> payload.fields.course_id,
                     title |-> payload.fields.title,
                     questions |-> <<>>])
              IN  IF quiz = ValidationError THEN Reject(w, "create_quiz", body)
                  ELSE Delegate(w, "create_quiz", "quiz", quiz)
    /\ UNCHANGED_store

enroll_student(w) ==
    /\ Quiet /\ Free(w)
    /\ \E body \in BodiesEnroll :
         LET payload == Construct(EnrollRequest, body) IN
         IF payload = ValidationError THEN Reject(w, "enroll_student", body)
         ELSE Delegate(w, "enroll_student", "enrollment",
                       Dict([course_id |-> payload.fields.course_id,
                             student_id |-> payload.fields.student_id,
                             status |-> "active",
                             progress_percent |-> 0]))
    /\ UNCHANGED_store

submit_assignment(w) ==
    /\ Quiet /\ Free(w)
    /\ \E body \in BodiesSubmit :
         LET payload == Construct(SubmitAssignmentRequest, body) IN
         IF payload = ValidationError THEN Reject(w, "submit_assignment", body)
         ELSE LET sub == Construct(Submission, model_dump(payload))
              IN  IF sub = ValidationError THEN Reject(w, "submit_assignment", body)
                  ELSE Delegate(w, "submit_assignment", "submission", sub)
    /\ UNCHANGED_store

track_activity(w) ==
    /\ Quiet /\ Free(w)
    /\ \E body \in BodiesActivity :
         LET payload == Construct(TrackActivityRequest, body) IN
         IF payload = ValidationError THEN Reject(w, "track_activity", body)
         ELSE LET act == Construct(Activity,
                    [user_id |-> payload.fields.user_id,
                     action |-> payload.fields.action,
                     resource_type |-> payload.fields.resource_type,
                     resource_id |-> payload.fields.resource_id,
                     metadata |-> NoFields])
              IN  IF act = ValidationError THEN Reject(w, "track_activity", body)
                  ELSE Delegate(w, "track_activity", "activity", act)
    /\ UNCHANGED_store

create_subscription(w) ==
    /\ Quiet /\ Free(w)
    /\ \E body \in BodiesSubscription :
         LET payload == Construct(CreateSubscriptionRequest, body) IN
         IF payload = ValidationError THEN Reject(w, "create_subscription", body)
         ELSE LET sub == Construct(Subscription,
                    [user_id |-> payload.fields.user_id,
                     plan |-> payload.fields.plan])
              IN  IF sub = ValidationError THEN Reject(w, "create_subscription", body)
                  ELSE Delegate(w, "create_subscription", "subscription", sub)
    /\ UNCHANGED_store

\* The kind each create route is for.
HandlerKind ==
    [create_course |-> "course", create_lesson |-> "lesson",
     create_assignment |-> "assignment", create_quiz |-> "quiz",
     enroll_student |-> "enrollment", submit_assignment |-> "submission",
     track_activity |-> "activity", create_subscription |-> "subscription"]

CreateHandlers == DOMAIN HandlerKind

Message ==
    [create_course |-> "Course created", create_lesson |-> "Lesson created",
     create_assignment |-> "Assignment created", create_quiz |-> "Quiz created",
     enroll_student |-> "Enrollment created",
     submit_assignment |-> "Submission received",
     track_activity |-> "Activity tracked",
     create_subscription |-> "Subscription created"]

\* The second step of every create handler:
\*     x_id = create_document(kind, x);  return {"id": x_id, "message": ...}
\* res is the gateway's result for the pending call c of worker w.
Return(w, c, res) ==
    /\ store' = res.store
    /\ nextId' = res.nextId
    /\ now' = res.now
    /\ handle' = res.handle
    /\ last' = IF res.status = "ok"
               THEN [Response(c.handler, "ok") EXCEPT
                       !.id = res.id,
                       !.body = [id |-> res.id, message |-> Message[c.handler]]]
               ELSE Response(c.handler, res.status)
    /\ log' = IF res.status = "ok"
              THEN Append(log, [handler |-> c.handler, id |-> res.id,
                                d |-> c.data.fields,
                                overlap |-> \E v \in Workers \ {w} :
                                              pc[v] = "call" /\ local[v] = c])
              ELSE log
    /\ pc' = [pc EXCEPT ![w] = "idle"]
    /\ local' = [local EXCEPT ![w] = NoCall]
    /\ UNCHANGED <<hasUrl, phase, db>>

\* Complete, were the handler to return the identifier of an identical
\* document already stored instead of writing a second one.
Complete_dedup(w) ==
    /\ Quiet /\ pc[w] = "call"
    /\ LET c == local[w]
           dup == {n \in DOMAIN store[c.kind] :
                     Declared(store[c.kind][n]) = Serialize(c.data)}
       IN  IF dup # {} /\ handle = "Connected"
           THEN Return(w, c,
                       [status |-> "ok",
                        id |-> store[c.kind][CHOOSE n \in dup : TRUE]._id,
                        store |-> store, nextId |-> nextId, now |-> now,
                        handle |-> handle])
           ELSE \E throws \in BOOLEAN :
                  /\ throws => handle = "Connected"
                  /\ Return(w, c, create_document(c.kind, c.data, now + 1, throws))

\* Complete, were the write to replace what the namespace holds.
Complete_replace(w) ==
    /\ Quiet /\ pc[w] = "call"
    /\ \E throws \in BOOLEAN :
         LET c == local[w]
             res == create_document(c.kind, c.data, now + 1, throws)
         IN  /\ throws => handle = "Connected"
             /\ Return(w, c,
                       IF res.status = "ok"
                       THEN [res EXCEPT !.store =
                               [store EXCEPT ![c.kind] =
                                  <<Stamp(Serialize(c.data), nextId, now + 1)>>]]
                       ELSE res)

Complete(w) ==
    /\ Quiet /\ pc[w] = "call"
    /\ \E throws \in BOOLEAN :
         /\ throws => handle = "Connected"
         /\ Return(w, local[w],
                   create_document(local[w].kind, local[w].data, now + 1, throws))

\* --- list handlers -----------------------------------------------------

\* Python truthiness of an Optional[str] query parameter.
Truthy(v) == v # None /\ v # ""

\* List, were the handler to return the first match only.
List_first_only(h, kind, filter_q, params) ==
    /\ Quiet
    /\ \E throws \in BOOLEAN :
         LET res == get_documents(kind, filter_q, throws) IN
         /\ throws => handle = "Connected"
         /\ handle' = res.handle
         /\ last' = IF res.status = "ok"
                    THEN [Response(h, "ok") EXCEPT
                            !.items = Slice(res.items, 1), !.params = params,
                            !.filter = filter_q]
                    ELSE Response(h, res.status)
    /\ UNCHANGED <<hasUrl, phase, db, store, nextId, now, pc, local, log>>

\* items = get_documents(kind, filter_q);  return {"items": items}
List(h, kind, filter_q, params) ==
    /\ Quiet
    /\ \E throws \in BOOLEAN :
         LET res == get_documents(kind, filter_q, throws) IN
         /\ throws => handle = "Connected"
         /\ handle' = res.handle
         /\ last' = IF res.status = "ok"
                    THEN [Response(h, "ok") EXCEPT
                            !.items = res.items, !.params = params,
                            !.filter = filter_q]
                    ELSE Response(h, res.status)
    /\ UNCHANGED <<hasUrl, phase, db, store, nextId, now, pc, local, log>>

list_courses == List("list_courses", "course", NoFields, NoFields)

list_lessons ==
    \E course_id \in QueryVals :
      LET filter_q == IF Truthy(course_id) THEN [course_id |-> course_id]
                      ELSE NoFields
      IN  List("list_lessons", "lesson", filter_q, [course_id |-> course_id])

list_assignments ==
    \E course_id \in QueryFew :
      LET filter_q == IF Truthy(course_id) THEN [course_id |-> course_id]
                      ELSE NoFields
      IN  List("list_assignments", "assignment", filter_q,
               [course_id |-> course_id])

list_quizzes ==
    \E course_id \in QueryFew :
      LET filter_q == IF Truthy(course_id) THEN [course_id |-> course_id]
                      ELSE NoFields
      IN  List("list_quizzes", "quiz", filter_q, [course_id |-> course_id])

list_enrollments ==
    \E course_id \in QueryVals, student_id \in QueryVals :
      LET q0 == NoFields
          q1 == IF Truthy(course_id) THEN ("course_id" :> course_id) @@ q0 ELSE q0
          q2 == IF Truthy(student_id) THEN ("student_id" :> student_id) @@ q1
                ELSE q1
      IN  List("list_enrollments", "enrollment", q2,
               [course_id |-> course_id, student_id |-> student_id])

list_submissions ==
    \E assignment_id \in QueryFew, student_id \in QueryVals :
      LET q0 == NoFields
          q1 == IF Truthy(assignment_id)
                THEN ("assignment_id" :> assignment_id) @@ q0 ELSE q0
          q2 == IF Truthy(student_id) THEN ("student_id" :> student_id) @@ q1
                ELSE q1
      IN  List("list_submissions", "submission", q2,
               [assignment_id |-> assignment_id, student_id |-> student_id])

list_subscriptions ==
    \E user_id \in QueryFew :
      LET q == IF Truthy(user_id) THEN [user_id |-> user_id] ELSE NoFields
      IN  List("list_subscriptions", "subscription", q, [user_id |-> user_id])

ListKind ==
    [list_courses |-> "course", list_lessons |-> "lesson",
     list_assignments |-> "assignment", list_quizzes |-> "quiz",
     list_enrollments |-> "enrollment", list_submissions |-> "submission",
     list_subscriptions |-> "subscription"]

ListHandlers == DOMAIN ListKind

\* ------------------------------------------------------------------------
\* The system
\* ------------------------------------------------------------------------

Next ==
    \/ Connect
    \/ ConnectOk
    \/ ConnectFail
    \/ ImportDb
    \/ read_root
    \/ get_schema
    \/ test_database
    \/ \E w \in Workers : create_course(w)
    \/ \E w \in Workers : create_lesson(w)
    \/ \E w \in Workers : create_assignment(w)
    \/ \E w \in Workers : create_quiz(w)
    \/ \E w \in Workers : enroll_student(w)
    \/ \E w \in Workers : submit_assignment(w)
    \/ \E w \in Workers : track_activity(w)
    \/ \E w \in Workers : create_subscription(w)
    \/ \E w \in Workers : Complete(w)
    \/ list_courses
    \/ list_lessons
    \/ list_assignments
    \/ list_quizzes
    \/ list_enrollments
    \/ list_submissions
    \/ list_subscriptions
    \/ Deliver

Spec == Init /\ [][Next]_vars

\* ------------------------------------------------------------------------
\* Properties
\* ------------------------------------------------------------------------

Items == {last.items[i] : i \in DOMAIN last.items}

Docs(k) == {store[k][n] : n \in DOMAIN store[k]}

Entries == {log[i] : i \in DOMAIN log}

\* A handler produced a response in this step.
Responded == last' # NoResponse /\ last' # last

\* The model of each namespace (lower-cased model name).
ModelOfKind ==
    [user |-> User, course |-> Course, lesson |-> Lesson,
     assignment |-> Assignment, quiz |-> Quiz, enrollment |-> Enrollment,
     submission |-> Submission, quizattempt |-> QuizAttempt,
     subscription |-> Subscription, activity |-> Activity]

\* --- C1 ----------------------------------------------------------------
\* C1: a list request carrying query parameter f = v (any string v, the
\* empty string included) returns only documents that have field f with the
\* value v, for every parameter it carries.
C1_ListReturnsOnlyMatches ==
    (last.handler \in ListHandlers /\ last.status = "ok") =>
        \A f \in DOMAIN last.params :
            last.params[f] # None =>
                \A d \in Items : f \in DOMAIN d /\ d[f] = last.params[f]

\* The same for the non-empty values: the part of C1 the handlers keep.
C1_NonEmptyParamsFilter ==
    (last.handler \in ListHandlers /\ last.status = "ok") =>
        /\ \A f \in DOMAIN last.params :
              Truthy(last.params[f]) =>
                  \A d \in Items : f \in DOMAIN d /\ d[f] = last.params[f]
        /\ \A d \in Docs(ListKind[last.handler]) :
              (\A f \in DOMAIN last.params :
                  Truthy(last.params[f]) =>
                      f \in DOMAIN d /\ d[f] = last.params[f])
              => d \in Items

\* --- C2 ----------------------------------------------------------------
\* C2: create is never deduplicated.  Every successful create response stands
\* for a document of its own: the identifiers returned are pairwise distinct
\* (also for identical input, also when the calls overlap), no two stored
\* documents share an identifier, and every create that returned has its
\* document in the store.
C2_CreateNeverDeduplicates ==
    /\ \A i, j \in DOMAIN log : i # j => log[i].id # log[j].id
    /\ \A k1, k2 \in Namespaces :
         \A n1 \in DOMAIN store[k1], n2 \in DOMAIN store[k2] :
            store[k1][n1]._id = store[k2][n2]._id => (k1 = k2 /\ n1 = n2)
    /\ Stored = Len(log)
    /\ \A e \in Entries :
         \E k \in Namespaces : \E d \in Docs(k) :
            d._id = e.id /\ Declared(d) = e.d

\* Two creates with identical input, the second in flight when the first
\* returned, have both returned.
C2_Witness ==
    \E i, j \in DOMAIN log :
        /\ i < j
        /\ log[i].handler = log[j].handler
        /\ log[i].d = log[j].d
        /\ log[i].overlap

\* --- C3 ----------------------------------------------------------------
\* C3: while the store handle is Uninitialized or Failed, every create and
\* every list that reaches the gateway ends in StoreUnavailableError and
\* writes nothing, schema introspection succeeds, and the liveness response
\* succeeds and reports the store as not connected.
C3_UnavailableStore ==
    [][(handle \in {"Uninitialized", "Failed"} /\ Responded) =>
          /\ (last'.handler \in CreateHandlers \cup ListHandlers
                /\ last'.status # "ValidationError")
               => (last'.status = "StoreUnavailableError"
                     /\ last'.items = <<>> /\ store' = store)
          /\ last'.handler = "get_schema"
               => (last'.status = "ok" /\ last'.body.collections = SCHEMAS)
          /\ last'.handler = "test_database"
               => (last'.status = "ok"
                     /\ last'.body.connection_status = "Not Connected")]_vars

\* The part of C3 that holds: the same, for a handle that was Uninitialized
\* or Failed when main.py imported it.
C3_UnavailableAtImport ==
    [][(db = None /\ Responded) =>
          /\ (last'.handler \in CreateHandlers \cup ListHandlers
                /\ last'.status # "ValidationError")
               => (last'.status = "StoreUnavailableError"
                     /\ last'.items = <<>> /\ store' = store)
          /\ last'.handler = "get_schema"
               => (last'.status = "ok" /\ last'.body.collections = SCHEMAS)
          /\ last'.handler = "test_database"
               => (last'.status = "ok"
                     /\ last'.body.connection_status = "Not Connected")]_vars

\* --- C4 ----------------------------------------------------------------
\* The literal sets declared in schemas.py, written out independently of the models.
CourseLevels == {"beginner", "intermediate", "advanced"}
SubscriptionPlans == {"free", "pro", "team", "enterprise"}

\* A document is whole and valid for namespace k: it has every declared
\* field of the kind, and its enumerated fields hold declared literals.
WholeAndValid(k, fields) ==
    /\ DOMAIN fields = DeclaredFields(ModelOfKind[k])
    /\ k = "course" => fields.level \in CourseLevels
    /\ k = "subscription" => fields.plan \in SubscriptionPlans

\* C4: a create whose payload fails validation is rejected as a whole before
\* it reaches storage: the rejecting step changes neither the store nor the
\* calls in flight, no document with a missing field or a value outside its
\* literal set is ever handed to the gateway or stored, and no list returns
\* one.
C4_InvalidWriteRejected ==
    /\ [](/\ \A w \in Workers :
               pc[w] = "call" => WholeAndValid(local[w].kind, local[w].data.fields)
          /\ \A k \in Namespaces : \A d \in Docs(k) : WholeAndValid(k, Declared(d))
          /\ (last.handler \in ListHandlers /\ last.status = "ok") =>
                \A d \in Items : WholeAndValid(ListKind[last.handler], Declared(d)))
    /\ [][(Responded /\ last'.status = "ValidationError") =>
             (store' = store /\ pc' = pc /\ local' = local /\ log' = log)]_vars

\* A course with a level outside the literal set was refused while the store
\* held a document, and so was a body with a required field missing.
C4_Witness ==
    /\ last.status = "ValidationError"
    /\ Stored > 0
    /\ \/ (last.handler = "create_course" /\ "level" \in DOMAIN last.params
             /\ last.params.level \notin CourseLevels)
       \/ (last.handler = "create_subscription" /\ "plan" \in DOMAIN last.params
             /\ last.params.plan \notin SubscriptionPlans)

\* --- C5 ----------------------------------------------------------------
\* C5: the store is append-only: a stored document is in its namespace,
\* with the same identifier, fields and creation timestamp, after every
\* step, and a list leaves the store unchanged.
C5_AppendOnly ==
    [][/\ \A k \in Namespaces : Docs(k) \subseteq Docs(k)'
       /\ (Responded /\ last'.handler \in ListHandlers) => store' = store]_vars

\* A list answered over a store that had grown twice.
C5_Witness ==
    /\ last.handler \in ListHandlers /\ last.status = "ok"
    /\ Stored >= 2
    /\ Items # {}

\* --- C6 ----------------------------------------------------------------
\* A response of list(kind, {}).
UnfilteredList ==
    last.handler \in ListHandlers /\ last.status = "ok" /\ last.filter = NoFields

\* C6 as stated: after a successful create(kind, d), list(kind, {}) includes
\* exactly one document whose declared fields equal d's.
C6_ExactlyOneWithThoseFields ==
    UnfilteredList =>
        \A e \in Entries :
            HandlerKind[e.handler] = ListKind[last.handler] =>
                Cardinality({d \in Items : Declared(d) = e.d}) = 1

\* C6 as amended: after a successful create(kind, d) that returned id,
\* list(kind, {}) includes exactly one document carrying that identifier; its
\* declared fields equal d's, and it has the identifier and a creation
\* timestamp on top of them.
C6_RoundTripById ==
    UnfilteredList =>
        \A e \in Entries :
            HandlerKind[e.handler] = ListKind[last.handler] =>
                /\ Cardinality({d \in Items : d._id = e.id}) = 1
                /\ \A d \in Items :
                     d._id = e.id =>
                        /\ Declared(d) = e.d
                        /\ DOMAIN d = DOMAIN e.d \cup {"_id", "created_at"}

\* list(kind, {}) answered after two creates of the kind with identical
\* input.
C6_Witness ==
    /\ UnfilteredList
    /\ \E i, j \in DOMAIN log :
         /\ i # j
         /\ log[i].d = log[j].d
         /\ HandlerKind[log[i].handler] = ListKind[last.handler]
         /\ HandlerKind[log[j].handler] = ListKind[last.handler]

\* --- C7 ----------------------------------------------------------------
\* A store operation raised in this step.
StoreOpRaised ==
    /\ Responded
    /\ \/ last'.status = "StoreError"
       \/ (last'.handler = "test_database" /\ last'.params.probe_raised)

\* C7: the handle follows Uninitialized -> Connecting -> {Connected, Failed};
\* a Connected handle moves to Failed when a run-time store operation
\* raises, Failed is never left, and once an operation has raised the
\* liveness response no longer reports the store as connected and creates
\* and lists end in StoreUnavailableError.
C7_HandleStateMachine ==
    [][/\ handle' # handle =>
            <<handle, handle'>> \in {<<"Uninitialized", "Connecting">>,
                                     <<"Connecting", "Connected">>,
                                     <<"Connecting", "Failed">>,
                                     <<"Connected", "Failed">>}
       /\ StoreOpRaised => handle' = "Failed"
       /\ (handle = "Failed" /\ Responded) =>
            /\ last'.handler = "test_database"
                 => last'.body.connection_status # "Connected"
            /\ (last'.handler \in CreateHandlers \cup ListHandlers
                  /\ last'.status # "ValidationError")
                 => last'.status = "StoreUnavailableError"]_vars

\* --- C8 ----------------------------------------------------------------
\* C8: every create handler hands the gateway an instance of the model of
\* the kind it writes, under the namespace named after that kind.
C8_EveryCreateValidatesItsModel ==
    \A w \in Workers :
        pc[w] = "call" =>
            /\ local[w].kind = HandlerKind[local[w].handler]
            /\ local[w].data.type = ModelOfKind[local[w].kind].name

\* The namespace half of C8, which holds.
C8_NamespaceIsKind ==
    \A w \in Workers :
        pc[w] = "call" => local[w].kind = HandlerKind[local[w].handler]

\* --- C9 ----------------------------------------------------------------
\* C9: an enrollment created from course_id and student_id alone is stored
\* with status "active" and progress_percent 0.0; and when student s has one
\* enrollment only, listing the enrollments with student_id = s returns
\* exactly that record, whatever other students' enrollments exist.
C9_EnrollmentScenario ==
    /\ \A d \in Docs("enrollment") : d.status = "active" /\ d.progress_percent = 0
    /\ (/\ last.handler = "list_enrollments" /\ last.status = "ok"
        /\ last.params.course_id = None /\ last.params.student_id # None) =>
          LET mine == {d \in Docs("enrollment") :
                         d.student_id = last.params.student_id}
          IN  Cardinality(mine) = 1 => Items = mine

\* The same, for a student identifier that is not the empty string.
C9_NonEmptyStudent ==
    /\ \A d \in Docs("enrollment") : d.status = "active" /\ d.progress_percent = 0
    /\ (/\ last.handler = "list_enrollments" /\ last.status = "ok"
        /\ last.params.course_id = None /\ Truthy(last.params.student_id)) =>
          LET mine == {d \in Docs("enrollment") :
                         d.student_id = last.params.student_id}
          IN  Cardinality(mine) = 1 => Items = mine

\* --- C10 ---------------------------------------------------------------
\* The kind of the create route that returned identifier id.
Origin(id) == HandlerKind[(CHOOSE e \in Entries : e.id = id).handler]

\* C10: a create for kind k changes namespace k only, every stored document
\* lies in the namespace of the kind it was created for, and a list of kind
\* k' returns documents created for k' only.
C10_NamespaceIsolation ==
    /\ [](/\ \A k \in Namespaces : \A d \in Docs(k) : Origin(d._id) = k
          /\ (last.handler \in ListHandlers /\ last.status = "ok") =>
                \A d \in Items : Origin(d._id) = ListKind[last.handler])
    /\ [][\A k \in Namespaces :
            store'[k] # store[k] =>
               /\ Responded
               /\ last'.handler \in CreateHandlers
               /\ HandlerKind[last'.handler] = k]_vars

\* Lessons of course "a" were listed while a quiz of the same course was
\* stored.
C10_Witness ==
    /\ last.handler = "list_lessons" /\ last.status = "ok"
    /\ last.params.course_id = "a"
    /\ Items # {}
    /\ \E q \in Docs("quiz") : q.course_id = "a"

====
